---- MODULE Spec2Model ----
(***************************************************************************)
(* Model of FacialRecognition.py: the two matching endpoints (/compare and *)
(* /compare-by-id), the corpus scan (find_matching_images), the per-       *)
(* candidate evaluation (are_faces_similar) and the identity enrichment    *)
(* (fetch_image_data).                                                     *)
(*                                                                         *)
(* Units.  A distance or threshold x is held as the integer x * 10^5, so   *)
(* 0.4 is 40000.  A similarity before rounding is held in 10^-3 percent,   *)
(* after round(similarity, 2) in 10^-2 percent, so 90.0 is 9000.           *)
(***************************************************************************)
EXTENDS Integers, Sequences, FiniteSets, TLC

\* ---- bounds of the model ----
MaxCorpus == 2      \* most objects the storage listing yields

\* ---- program constants ----
DefaultThreshold == 40000   \* threshold=0.4

ALLOWED_EXTENSIONS == {"png", "jpg", "jpeg", "bmp", "gif"}

\* ---- the environment's value sets ----
\* The object names under PREFIX, in the order list_objects yields them, and
\* the document paths of nna_document.
ObjectNames == <<"profile_photos/a.jpg", "profile_photos/b.jpg", "profile_photos/c.jpg">>
Paths == { ObjectNames[i] : i \in DOMAIN ObjectNames }
Ids == {1, 2}       \* the identities of table nna
NoOwner == 0        \* no row of nna_document JOIN nna for a path

\* A file name is the sequence of its pieces, "." being a piece of its own.
Filenames ==
    { <<>>, <<"face", ".", "jpg">>, <<"face", ".", "JPG">>, <<"face">>,
      <<"face", ".", "png", ".", "exe">> }

\* The threshold field of a request: absent, text that is no number, or a number.
ThresholdFields ==
    { [present |-> FALSE, numeric |-> FALSE, value |-> 0],
      [present |-> TRUE, numeric |-> FALSE, value |-> 0] }
    \cup { [present |-> TRUE, numeric |-> TRUE, value |-> v] : v \in {-10000, 0, 50000} }

\* What DeepFace.verify does for one candidate: it raises, or it returns
\* result["verified"] and result["distance"].
CmpOutcomes ==
    { [raises |-> TRUE, verified |-> FALSE, distance |-> 0],
      [raises |-> FALSE, verified |-> TRUE, distance |-> 0],
      [raises |-> FALSE, verified |-> TRUE, distance |-> 12346],
      [raises |-> FALSE, verified |-> FALSE, distance |-> 12346],
      [raises |-> FALSE, verified |-> TRUE, distance |-> 40000],
      [raises |-> FALSE, verified |-> TRUE, distance |-> 120000] }

\* The nna_id of a /compare-by-id body: a JSON number k is [type "int", val k],
\* a JSON string of the digits of k is [type "str", val k].
NoNnaId == [type |-> "none", val |-> 0]
NnaIdValues == { [type |-> t, val |-> k] : t \in {"int", "str"}, k \in Ids }

\* The JSON body of /compare-by-id.
Bodies ==
    { [has_body |-> FALSE, has_nna_id |-> FALSE, nna_id |-> NoNnaId, threshold |-> f]
        : f \in {[present |-> FALSE, numeric |-> FALSE, value |-> 0]} }
    \cup { [has_body |-> TRUE, has_nna_id |-> FALSE, nna_id |-> NoNnaId, threshold |-> f]
        : f \in {[present |-> TRUE, numeric |-> TRUE, value |-> 50000]} }
    \cup { [has_body |-> TRUE, has_nna_id |-> TRUE, nna_id |-> n, threshold |-> f]
        : n \in NnaIdValues, f \in ThresholdFields }

VARIABLES
    corpus,     \* the object names list_objects yields, in listing order
    db,         \* nna_document JOIN nna: document_path -> owning nna id, or NoOwner
    pc,         \* position of the request: "idle", "scan", "done"
    op,         \* the endpoint serving it: "none", "compare", "compare_by_id"
    nna_id,     \* compare_by_nna_id's nna_id
    threshold,  \* the parsed threshold
    query_tmp,  \* the endpoint's temporary query file exists
    cand_tmp,   \* number of are_faces_similar's temporary files on disk
    evals,      \* what happened to each candidate yielded so far
    matches,    \* find_matching_images' matches
    results,    \* what fetch_image_data returned
    response,   \* the JSON response and status
    hist        \* calls made for this request and failures met

vars == <<corpus, db, pc, op, nna_id, threshold, query_tmp, cand_tmp, evals,
          matches, results, response, hist>>

Max(a, b) == IF a >= b THEN a ELSE b

NoResponse ==
    [status |-> 0, success |-> FALSE, matches_count |-> 0, matches |-> <<>>,
     message |-> "none"]

Failure(status, message) ==
    [status |-> status, success |-> FALSE, matches_count |-> 0, matches |-> <<>>,
     message |-> message]

Success(rs, message) ==
    [status |-> 200, success |-> TRUE, matches_count |-> Len(rs), matches |-> rs,
     message |-> message]

NoHist ==
    [list_calls |-> 0, get_calls |-> 0, verify_calls |-> 0, list_failed |-> FALSE,
     scan_returned |-> FALSE, enrich |-> "none", row_errors |-> {}]

\* ---- helpers of the handlers ----

Lower(piece) ==
    CASE piece = "JPG" -> "jpg"
      [] piece = "PNG" -> "png"
      [] OTHER -> piece

\* filename.rsplit('.', 1)[1]: the pieces after the last ".".
LastDot(filename) ==
    CHOOSE i \in 0..Len(filename) :
        /\ (i = 0 \/ filename[i] = ".")
        /\ \A j \in (i + 1)..Len(filename) : filename[j] # "."

allowed_file(filename) ==
    /\ \E i \in 1..Len(filename) : filename[i] = "."
    /\ LET ext == SubSeq(filename, LastDot(filename) + 1, Len(filename))
       IN  Len(ext) = 1 /\ Lower(ext[1]) \in ALLOWED_EXTENSIONS

\* float(request.form.get('threshold', 0.4)), float(data.get('threshold', 0.4))
ParseThreshold(field) ==
    IF ~field.present THEN [raises |-> FALSE, value |-> DefaultThreshold]
    ELSE IF field.numeric THEN [raises |-> FALSE, value |-> field.value]
    ELSE [raises |-> TRUE, value |-> 0]

\* round(similarity, 2): from 10^-3 percent to 10^-2 percent, ties to even.
Round2(x) ==
    LET q == x \div 10
        r == x % 10
    IN  IF r < 5 THEN q
        ELSE IF r > 5 THEN q + 1
        ELSE IF q % 2 = 0 THEN q ELSE q + 1

\* Variant of are_faces_similar: distance <= threshold in place of <.
are_faces_similar_le(cmp, t) ==
    IF cmp.raises
    THEN [is_match |-> FALSE, similarity |-> 0, tmp_left |-> 1]
    ELSE [is_match |-> cmp.verified /\ cmp.distance <= t,
          similarity |-> Max(0, 100000 - cmp.distance),
          tmp_left |-> 0]

\* Variant of are_faces_similar: the comparator's verified flag alone decides.
are_faces_similar_verifiedOnly(cmp, t) ==
    IF cmp.raises
    THEN [is_match |-> FALSE, similarity |-> 0, tmp_left |-> 1]
    ELSE [is_match |-> cmp.verified,
          similarity |-> Max(0, 100000 - cmp.distance),
          tmp_left |-> 0]

\* are_faces_similar(img1_path, img2_bytes, threshold): the pair it returns, and
\* tmp_left, the number of temporary files it leaves on disk.  The temporary
\* file is created with delete=False and unlinked after DeepFace.verify
\* returned; when verify raises, control goes to the except clause.
are_faces_similar(cmp, t) ==
    IF cmp.raises
    THEN [is_match |-> FALSE, similarity |-> 0, tmp_left |-> 1]
    ELSE [is_match |-> cmp.verified /\ cmp.distance < t,
          similarity |-> Max(0, 100000 - cmp.distance),
          tmp_left |-> 0]

\* Variant of ScanOne: a failed fetch discards the matches collected so far.
ScanOne_resetOnError(ms, obj, fetchOk, cmp, t) ==
    IF ~fetchOk THEN <<>>
    ELSE LET r == are_faces_similar(cmp, t)
         IN  IF r.is_match
             THEN Append(ms, [file_path |-> obj, similarity |-> Round2(r.similarity)])
             ELSE ms

\* The body of find_matching_images' loop for one object: the matches after it.
ScanOne(ms, obj, fetchOk, cmp, t) ==
    IF ~fetchOk THEN ms
    ELSE LET r == are_faces_similar(cmp, t)
         IN  IF r.is_match
             THEN Append(ms, [file_path |-> obj, similarity |-> Round2(r.similarity)])
             ELSE ms

\* CONCAT(n.name, ' ', n.surname) of identity id.
NombreCompleto(id) == <<"name", id, "surname", id>>

\* fetch_image_data's loop from match i on: one row per match that has an owner
\* and whose query did not raise mysql.connector.Error.
RECURSIVE FetchRows(_, _, _, _)
FetchRows(ms, i, rowErrs, table) ==
    IF i > Len(ms) THEN <<>>
    ELSE LET m == ms[i]
             rest == FetchRows(ms, i + 1, rowErrs, table)
         IN  IF i \in rowErrs \/ table[m.file_path] = NoOwner
             THEN rest
             ELSE <<[nna_id |-> [type |-> "int", val |-> table[m.file_path]],
                     nombre_completo |-> NombreCompleto(table[m.file_path]),
                     document_path |-> m.file_path,
                     similarity |-> m.similarity]>> \o rest

\* Variant of fetch_image_data: no test of the row fetched, a match without an
\* owning row is kept with an empty identity.
RECURSIVE FetchRows_keepUnowned(_, _, _, _)
FetchRows_keepUnowned(ms, i, rowErrs, table) ==
    IF i > Len(ms) THEN <<>>
    ELSE LET m == ms[i]
             rest == FetchRows_keepUnowned(ms, i + 1, rowErrs, table)
         IN  IF i \in rowErrs
             THEN rest
             ELSE <<[nna_id |-> IF table[m.file_path] = NoOwner THEN NoNnaId
                                ELSE [type |-> "int", val |-> table[m.file_path]],
                     nombre_completo |-> NombreCompleto(table[m.file_path]),
                     document_path |-> m.file_path,
                     similarity |-> m.similarity]>> \o rest

fetch_image_data_keepUnowned(ms, connOk, rowErrs, table) ==
    IF ~connOk THEN <<>> ELSE FetchRows_keepUnowned(ms, 1, rowErrs, table)

\* fetch_image_data(matches): [] when connect_db() returned None.
fetch_image_data(ms, connOk, rowErrs, table) ==
    IF ~connOk THEN <<>> ELSE FetchRows(ms, 1, rowErrs, table)

\* MySQL's NNA_ID = %s: the parameter is converted to the column's integer type.
SqlEquals(column, param) == param.type \in {"int", "str"} /\ column = param.val

\* Python's r['nna_id'] != nna_id: an int never equals a str.
PyNotEqual(a, b) == a # b

\* Variant of CompareFacesResponse: no match is answered as 404.
CompareFacesResponse_notFound(ms, rs) ==
    IF ms = <<>> THEN Failure(404, "No se encontraron coincidencias")
    ELSE Success(rs, "Se encontraron coincidencia(s)")

\* compare_faces after the scan returned.
CompareFacesResponse(ms, rs) ==
    IF ms = <<>> THEN Success(<<>>, "No se encontraron coincidencias")
    ELSE Success(rs, "Se encontraron coincidencia(s)")

\* compare_by_nna_id after the scan returned.
SelfExcluded(rs, id) == SelectSeq(rs, LAMBDA r : PyNotEqual(r.nna_id, id))

CompareByIdResponse(rs, id) ==
    Success(SelfExcluded(rs, id), "Se encontraron coincidencia(s) diferentes al NNA consultado")

\* ---- entry of the two endpoints, up to the call of find_matching_images ----

\* compare_faces before the scan: the response when the request ends there, or
\* proceed with the parsed threshold.
CompareFacesEntry(hasImage, filename, field) ==
    IF ~hasImage
    THEN [proceed |-> FALSE, threshold |-> 0, get_calls |-> 0,
          response |-> Failure(400, "No se envio ninguna imagen")]
    ELSE IF filename = <<>>
    THEN [proceed |-> FALSE, threshold |-> 0, get_calls |-> 0,
          response |-> Failure(400, "Nombre de archivo vacio")]
    ELSE IF ~allowed_file(filename)
    THEN [proceed |-> FALSE, threshold |-> 0, get_calls |-> 0,
          response |-> Failure(400, "Tipo de archivo no permitido")]
    ELSE IF ParseThreshold(field).raises
    THEN [proceed |-> FALSE, threshold |-> 0, get_calls |-> 0,
          response |-> Failure(500, "Error interno: float")]
    ELSE [proceed |-> TRUE, threshold |-> ParseThreshold(field).value, get_calls |-> 0,
          response |-> NoResponse]

\* Variant of CompareByIdEntry: the reference photo is fetched from a path
\* built from the nna_id before the lookup's result is tested.
CompareByIdEntry_fetchFirst(body, connOk, fetchOk, table) ==
    IF ~body.has_body \/ ~body.has_nna_id
    THEN [proceed |-> FALSE, threshold |-> 0, get_calls |-> 0,
          response |-> Failure(400, "Se requiere el parametro 'nna_id'")]
    ELSE IF ParseThreshold(body.threshold).raises
    THEN [proceed |-> FALSE, threshold |-> 0, get_calls |-> 0,
          response |-> Failure(500, "Error interno: float")]
    ELSE IF ~connOk
    THEN [proceed |-> FALSE, threshold |-> 0, get_calls |-> 0,
          response |-> Failure(500, "Error al conectar con la base de datos")]
    ELSE IF ~fetchOk
    THEN [proceed |-> FALSE, threshold |-> 0, get_calls |-> 1,
          response |-> Failure(500, "Error interno: get_object")]
    ELSE IF \A p \in DOMAIN table : ~SqlEquals(table[p], body.nna_id)
    THEN [proceed |-> FALSE, threshold |-> 0, get_calls |-> 1,
          response |-> Failure(404, "No se encontro foto para el NNA ID")]
    ELSE [proceed |-> TRUE, threshold |-> ParseThreshold(body.threshold).value,
          get_calls |-> 1, response |-> NoResponse]

\* compare_by_nna_id before the scan.  connOk: connect_db() returned a
\* connection; fetchOk: get_object of the reference photo did not raise.
CompareByIdEntry(body, connOk, fetchOk, table) ==
    IF ~body.has_body \/ ~body.has_nna_id
    THEN [proceed |-> FALSE, threshold |-> 0, get_calls |-> 0,
          response |-> Failure(400, "Se requiere el parametro 'nna_id'")]
    ELSE IF ParseThreshold(body.threshold).raises
    THEN [proceed |-> FALSE, threshold |-> 0, get_calls |-> 0,
          response |-> Failure(500, "Error interno: float")]
    ELSE IF ~connOk
    THEN [proceed |-> FALSE, threshold |-> 0, get_calls |-> 0,
          response |-> Failure(500, "Error al conectar con la base de datos")]
    ELSE IF \A p \in DOMAIN table : ~SqlEquals(table[p], body.nna_id)
    THEN [proceed |-> FALSE, threshold |-> 0, get_calls |-> 0,
          response |-> Failure(404, "No se encontro foto para el NNA ID")]
    ELSE IF ~fetchOk
    THEN [proceed |-> FALSE, threshold |-> 0, get_calls |-> 1,
          response |-> Failure(500, "Error interno: get_object")]
    ELSE [proceed |-> TRUE, threshold |-> ParseThreshold(body.threshold).value,
          get_calls |-> 1, response |-> NoResponse]

\* ---- the state machine ----

\* The listings of a corpus of at most MaxCorpus objects; object names are
\* distinct, and any listing is one of these up to the names of its objects.
CorpusListings ==
    { SubSeq(ObjectNames, 1, n) : n \in { k \in 0..MaxCorpus : k <= Len(ObjectNames) } }

Init ==
    /\ corpus \in CorpusListings
    /\ db \in [Paths -> {NoOwner} \cup Ids]
    /\ pc = "idle"
    /\ op = "none"
    /\ nna_id = NoNnaId
    /\ threshold = 0
    /\ query_tmp = FALSE
    /\ cand_tmp = 0
    /\ evals = <<>>
    /\ matches = <<>>
    /\ results = <<>>
    /\ response = NoResponse
    /\ hist = NoHist

\* POST /compare, up to the call of find_matching_images.
CompareFacesStart(hasImage, filename, field) ==
    /\ pc = "idle"
    /\ LET e == CompareFacesEntry(hasImage, filename, field)
       IN  /\ pc' = IF e.proceed THEN "scan" ELSE "done"
           /\ threshold' = e.threshold
           /\ query_tmp' = e.proceed
           /\ response' = e.response
           /\ hist' = [hist EXCEPT !.get_calls = e.get_calls]
    /\ op' = "compare"
    /\ UNCHANGED <<corpus, db, nna_id, cand_tmp, evals, matches, results>>

\* POST /compare-by-id, up to the call of find_matching_images.
CompareByIdStart(body, connOk, fetchOk) ==
    /\ pc = "idle"
    /\ LET e == CompareByIdEntry(body, connOk, fetchOk, db)
       IN  /\ pc' = IF e.proceed THEN "scan" ELSE "done"
           /\ threshold' = e.threshold
           /\ query_tmp' = e.proceed
           /\ response' = e.response
           /\ hist' = [hist EXCEPT !.get_calls = e.get_calls]
    /\ op' = "compare_by_id"
    /\ nna_id' = body.nna_id
    /\ UNCHANGED <<corpus, db, cand_tmp, evals, matches, results>>

\* One turn of find_matching_images' loop: list_objects yields the next object,
\* get_object fetches it (or raises) and are_faces_similar evaluates it.
ScanCandidate(fetchOk, cmp) ==
    /\ pc = "scan"
    /\ Len(evals) < Len(corpus)
    /\ fetchOk \/ cmp.raises
    /\ LET obj == corpus[Len(evals) + 1]
       IN  /\ matches' = ScanOne(matches, obj, fetchOk, cmp, threshold)
           /\ evals' = Append(evals,
                  [object_name |-> obj, fetched |-> fetchOk, raises |-> cmp.raises,
                   verified |-> cmp.verified, distance |-> cmp.distance])
    /\ cand_tmp' = cand_tmp
                   + (IF fetchOk THEN are_faces_similar(cmp, threshold).tmp_left ELSE 0)
    /\ hist' = [hist EXCEPT !.list_calls = @ + 1, !.get_calls = @ + 1,
                            !.verify_calls = @ + (IF fetchOk THEN 1 ELSE 0)]
    /\ UNCHANGED <<corpus, db, pc, op, nna_id, threshold, query_tmp, results, response>>

\* Variant of ListObjectsRaises: the exception is caught inside
\* find_matching_images, which returns the matches collected so far.
ListObjectsRaises_swallowed ==
    /\ pc = "scan"
    /\ Len(evals) < Len(corpus)
    /\ corpus' = SubSeq(corpus, 1, Len(evals))
    /\ hist' = [hist EXCEPT !.list_calls = @ + 1, !.list_failed = TRUE]
    /\ UNCHANGED <<db, pc, op, nna_id, threshold, query_tmp, cand_tmp, evals,
                   matches, results, response>>

\* list_objects raises while the loop asks it for an object: the exception
\* leaves find_matching_images, the endpoint's finally unlinks the query file
\* and its except Exception answers 500.
ListObjectsRaises ==
    /\ pc = "scan"
    /\ pc' = "done"
    /\ query_tmp' = FALSE
    /\ response' = Failure(500, "Error interno: list_objects")
    /\ hist' = [hist EXCEPT !.list_calls = @ + 1, !.list_failed = TRUE]
    /\ UNCHANGED <<corpus, db, op, nna_id, threshold, cand_tmp, evals, matches, results>>

\* The listing is exhausted, find_matching_images returns and compare_faces
\* goes on to its response.
CompareFacesFinish(connOk, rowErrs) ==
    /\ pc = "scan"
    /\ op = "compare"
    /\ Len(evals) = Len(corpus)
    /\ rowErrs \subseteq 1..Len(matches)
    /\ matches = <<>> => connOk /\ rowErrs = {}
    /\ ~connOk => rowErrs = {}
    /\ results' = IF matches = <<>> THEN <<>>
                  ELSE fetch_image_data(matches, connOk, rowErrs, db)
    /\ response' = CompareFacesResponse(matches, results')
    /\ hist' = [hist EXCEPT !.list_calls = @ + 1, !.scan_returned = TRUE,
                   !.enrich = IF matches = <<>> THEN "none"
                              ELSE IF connOk THEN "connected" ELSE "unreachable",
                   !.row_errors = rowErrs]
    /\ query_tmp' = FALSE
    /\ pc' = "done"
    /\ UNCHANGED <<corpus, db, op, nna_id, threshold, cand_tmp, evals, matches>>

\* The listing is exhausted, find_matching_images returns and
\* compare_by_nna_id goes on to its response.
CompareByIdFinish(connOk, rowErrs) ==
    /\ pc = "scan"
    /\ op = "compare_by_id"
    /\ Len(evals) = Len(corpus)
    /\ rowErrs \subseteq 1..Len(matches)
    /\ ~connOk => rowErrs = {}
    /\ results' = fetch_image_data(matches, connOk, rowErrs, db)
    /\ response' = CompareByIdResponse(results', nna_id)
    /\ hist' = [hist EXCEPT !.list_calls = @ + 1, !.scan_returned = TRUE,
                   !.enrich = IF connOk THEN "connected" ELSE "unreachable",
                   !.row_errors = rowErrs]
    /\ query_tmp' = FALSE
    /\ pc' = "done"
    /\ UNCHANGED <<corpus, db, op, nna_id, threshold, cand_tmp, evals, matches>>

Next ==
    \/ \E hasImage \in BOOLEAN, filename \in Filenames, field \in ThresholdFields :
          CompareFacesStart(hasImage, filename, field)
    \/ \E body \in Bodies, connOk \in BOOLEAN, fetchOk \in BOOLEAN :
          CompareByIdStart(body, connOk, fetchOk)
    \/ \E fetchOk \in BOOLEAN, cmp \in CmpOutcomes : ScanCandidate(fetchOk, cmp)
    \/ ListObjectsRaises
    \/ \E connOk \in BOOLEAN, rowErrs \in SUBSET (1..MaxCorpus + 1) :
          CompareFacesFinish(connOk, rowErrs)
    \/ \E connOk \in BOOLEAN, rowErrs \in SUBSET (1..MaxCorpus + 1) :
          CompareByIdFinish(connOk, rowErrs)

Spec == Init /\ [][Next]_vars

\* ---- properties ----

Completed(e) == e.fetched /\ ~e.raises

InMatches(name) == \E j \in DOMAIN matches : matches[j].file_path = name

\* C1: a candidate whose fetch and comparison completed without error is in
\* the match list if and only if the comparator returned verified and its
\* distance is strictly below the threshold.
C1_MatchIffVerifiedAndBelow ==
    \A i \in DOMAIN evals :
        Completed(evals[i]) =>
            (InMatches(evals[i].object_name)
                <=> (evals[i].verified /\ evals[i].distance < threshold))

\* A scan that returned with one candidate matched and another one verified
\* at a distance equal to the threshold.
C1_Witness ==
    /\ hist.scan_returned
    /\ Len(matches) = 1
    /\ \E i \in DOMAIN evals :
          /\ Completed(evals[i]) /\ evals[i].verified
          /\ evals[i].distance = threshold
          /\ ~InMatches(evals[i].object_name)

\* find_matching_images run over the candidates of es alone, each with the
\* outcome it had.
RECURSIVE ScanOver(_, _)
ScanOver(es, t) ==
    IF es = <<>> THEN <<>>
    ELSE LET e == es[Len(es)]
         IN  ScanOne(ScanOver(SubSeq(es, 1, Len(es) - 1), t), e.object_name, e.fetched,
                     [raises |-> e.raises, verified |-> e.verified,
                      distance |-> e.distance], t)

\* C2: the matches of a scan are those of the scan over the candidates that
\* did not fail, in the same order with the same similarities; a candidate's
\* failure does not end the scan, and no failure that is not the listing's
\* reaches the caller.
C2_Isolation ==
    /\ matches = ScanOver(SelectSeq(evals, Completed), threshold)
    /\ (pc = "done" /\ hist.list_calls > 0 /\ ~hist.list_failed)
          => (response.success /\ hist.scan_returned /\ Len(evals) = Len(corpus))

\* A first candidate failed, a later one matched, and the request succeeded.
C2_Witness ==
    /\ pc = "done" /\ response.success
    /\ Len(evals) >= 2
    /\ ~Completed(evals[1])
    /\ \E j \in DOMAIN matches : matches[j].file_path = evals[2].object_name

\* C3: compare_by_nna_id never returns the queried identity among its matches.
C3_SelfNeverReturned ==
    (pc = "done" /\ op = "compare_by_id" /\ response.success)
        => \A i \in DOMAIN response.matches :
              response.matches[i].nna_id.val # nna_id.val

\* C4: when the scan found a match and the metadata store cannot be reached
\* during enrichment, the request is answered with a failure.
C4_ConnectFailureIsFailure ==
    (pc = "done" /\ hist.enrich = "unreachable" /\ matches # <<>>)
        => ~response.success

\* C5: a failure of the storage listing ends the request with a failure,
\* never with a success.
C5_ListFailureIsFailure ==
    hist.list_failed
        => (pc = "done" /\ ~response.success /\ response.status = 500
            /\ ~hist.scan_returned)

\* The listing failed after a candidate had matched.
C5_Witness ==
    hist.list_failed /\ matches # <<>> /\ Len(evals) < Len(corpus)

\* rs from position i on is an order-preserving selection of ms from position
\* j on, each row carrying its match's path and similarity.
RECURSIVE Embeds(_, _, _, _)
Embeds(rs, i, ms, j) ==
    IF i > Len(rs) THEN TRUE
    ELSE IF j > Len(ms) THEN FALSE
    ELSE IF /\ rs[i].document_path = ms[j].file_path
            /\ rs[i].similarity = ms[j].similarity
         THEN Embeds(rs, i + 1, ms, j + 1)
         ELSE Embeds(rs, i, ms, j + 1)

Unowned == { i \in DOMAIN matches : db[matches[i].file_path] = NoOwner }

\* C6: what fetch_image_data returns is an order-preserving selection of the
\* matches it was given; with the store reached and no query failing, each
\* match without an owning row lowers the count by one, and the request is
\* answered as a success.
C6_EnrichmentOnlyFilters ==
    hist.enrich # "none" =>
        /\ Embeds(results, 1, matches, 1)
        /\ Len(results) <= Len(matches)
        /\ (hist.enrich = "connected" /\ hist.row_errors = {})
              => Len(results) = Len(matches) - Cardinality(Unowned)
        /\ response.success
        /\ op = "compare" => response.matches_count = Len(results)

\* Two matches, one of them without an owning row: one enriched row.
C6_Witness ==
    /\ hist.enrich = "connected" /\ hist.row_errors = {}
    /\ op = "compare"
    /\ Len(matches) = 2 /\ Cardinality(Unowned) = 1
    /\ response.matches_count = 1

\* C7: a scan of an empty corpus returns no match and the request is answered
\* as a success with matches_count 0 and no matches.
C7_EmptyCorpusIsSuccess ==
    (hist.scan_returned /\ corpus = <<>>)
        => /\ matches = <<>>
           /\ response.success /\ response.status = 200
           /\ response.matches_count = 0 /\ response.matches = <<>>

C7_Witness ==
    hist.scan_returned /\ corpus = <<>> /\ op = "compare" /\ pc = "done"

\* C8: with a threshold of 0 or less no candidate matches, and the request is
\* answered as a success with no matches.
C8_NonPositiveThresholdNeverMatches ==
    (hist.list_calls > 0 /\ threshold <= 0)
        => /\ matches = <<>>
           /\ hist.scan_returned
                 => (response.success /\ response.matches_count = 0
                     /\ response.matches = <<>>)

\* A scan under threshold 0 that met a verified candidate at distance 0.
C8_Witness ==
    /\ hist.scan_returned /\ threshold = 0
    /\ \E i \in DOMAIN evals :
          Completed(evals[i]) /\ evals[i].verified /\ evals[i].distance = 0

\* C9: a request answered with an input-validation failure (400) or with
\* not-found (404) has enumerated nothing, fetched nothing and compared
\* nothing, and its answer is a failure.
C9_RejectedBeforePipeline ==
    (pc = "done" /\ response.status \in {400, 404})
        => /\ ~response.success
           /\ hist.list_calls = 0 /\ hist.get_calls = 0 /\ hist.verify_calls = 0
           /\ evals = <<>> /\ ~query_tmp

C9_Witness ==
    pc = "done" /\ op = "compare_by_id" /\ response.status = 404 /\ corpus # <<>>

\* C10: no temporary candidate file is left on disk once are_faces_similar
\* has returned.
C10_NoCandidateTempFiles == cand_tmp = 0

====
